---- MODULE Spec2Model ----
(***************************************************************************)
(* Model of streamlit_app.py: the exchange-rate retrieval function, the    *)
(* currency-code extraction, and the two button handlers (Plan My Trip,    *)
(* Get Market Details) with the external calls they issue.                 *)
(***************************************************************************)
EXTENDS Integers, Sequences, FiniteSets, TLC

VARIABLES
    groq_key,       \* sidebar text inputs: "" (empty) or a non-empty key
    weather_key,
    exchange_key,
    pc,             \* position of the running script
    flow,           \* which button handler ran last: "none", "trip", "market"
    log,            \* outbound calls and st.* outputs of the current run, in order
    days,           \* number_input value of the trip tab
    country,        \* text_input value of the market tab
    current,        \* reply of get_current_weather
    forecast_data,  \* reply of get_forecast
    shown,          \* forecast entries written by the display loop, in order
    info,           \* LLM text of the market flow (sequence of characters)
    currency,       \* result of the currency extraction
    resp,           \* reply the exchange-rate endpoint gives to get_exchange_rates
    rates           \* outcome of get_exchange_rates

vars == <<groq_key, weather_key, exchange_key, pc, flow, log, days, country,
          current, forecast_data, shown, info, currency, resp, rates>>

-----------------------------------------------------------------------------
(* Bounds of the model *)

\* longest LLM text (in characters) the extraction is applied to on its own
MaxTextLen == 7
\* longest LLM text (in characters) the market flow receives
MaxInfoLen == 3
\* most whitespace characters on each side of a response body
MaxPad == 1
\* most entries of a forecast list
MaxEntries == 18

-----------------------------------------------------------------------------
(* JSON values as Python sees them after response.json() *)

NoFields == <<>>

JNull == [t |-> "null", s |-> "", n |-> 0, m |-> NoFields]

JStr(x) == [t |-> "str", s |-> x, n |-> 0, m |-> NoFields]

JNum(k) == [t |-> "num", s |-> "", n |-> k, m |-> NoFields]

JArr == [t |-> "arr", s |-> "", n |-> 0, m |-> NoFields]

JObj(f) == [t |-> "obj", s |-> "", n |-> 0, m |-> f]

\* dict.get(key) used where dict.get(key, default) is meant
Get_without_default(d, key, default) == IF key \in DOMAIN d.m THEN d.m[key] ELSE JNull

\* dict.get(key, default)
Get(d, key, default) == IF key \in DOMAIN d.m THEN d.m[key] ELSE default

\* key in dict
Has(d, key) == key \in DOMAIN d.m

\* a function with the keys of f that are not mapped to the marker Absent
Absent == [t |-> "absent", s |-> "", n |-> 0, m |-> NoFields]

Present(f) == [k \in {x \in DOMAIN f : f[x] # Absent} |-> f[k]]

SampleRates == JObj(("USD" :> JNum(1)) @@ ("INR" :> JNum(83)))

\* the JSON objects the rate service may answer with
Payloads ==
    { JObj(Present(("result" :> r) @@ ("error-type" :> e)
                   @@ ("conversion_rates" :> c) @@ ("error" :> x))) :
        r \in {Absent, JStr("success"), JStr("error")},
        e \in {Absent, JStr("unsupported-code")},
        c \in {Absent, SampleRates, JNull},
        x \in {Absent, JStr("quota-reached")} }

\* JSON texts that are not objects: [], "success", 7, null
NonObjects == {JArr, JStr("success"), JNum(7), JNull}

JsonValues == Payloads \cup NonObjects

-----------------------------------------------------------------------------
(* Response bodies: a sequence of pieces of text *)

WS == [kind |-> "ws", val |-> JNull]            \* a whitespace character

Garbage == [kind |-> "text", val |-> JNull]     \* text that is no JSON, e.g. <html>

JsonText(v) == [kind |-> "json", val |-> v]     \* the serialisation of v

Pad(k) == [i \in 1..k |-> WS]

Cores ==
    {<<>>, <<Garbage>>, <<JsonText(JObj(NoFields)), Garbage>>,
     <<JsonText(JNum(7)), WS, JsonText(JNum(7))>>}
    \cup {<<JsonText(v)>> : v \in JsonValues}

Bodies == {Pad(l) \o c \o Pad(r) : l \in 0..MaxPad, r \in 0..MaxPad, c \in Cores}

Statuses == {200, 403, 404}

Transports == {"response", "RequestException"}

RECURSIVE lstrip(_)
lstrip(s) == IF s # <<>> /\ Head(s).kind = "ws" THEN lstrip(Tail(s)) ELSE s

RECURSIVE rstrip(_)
rstrip(s) ==
    IF s # <<>> /\ s[Len(s)].kind = "ws" THEN rstrip(SubSeq(s, 1, Len(s) - 1)) ELSE s

\* the body tested as it is, whitespace kept
strip_nothing(s) == s

\* str.strip()
strip(s) == rstrip(lstrip(s))

\* response.json(): a JSON text, whitespace allowed around it; else ValueError
response_json(body) ==
    LET core == rstrip(lstrip(body))
    IN  IF Len(core) = 1 /\ core[1].kind = "json"
        THEN [ok |-> TRUE, data |-> core[1].val]
        ELSE [ok |-> FALSE, data |-> JNull]

-----------------------------------------------------------------------------
(* get_exchange_rates *)

HTTP_OK == 200

ErrorDict(msg) == JObj("error" :> msg)

\* the function returned value `ret` at source line `line`, having run `checks`
Returned(ret, line, checks) ==
    [raised |-> FALSE, ret |-> ret, line |-> line, checks |-> checks]

\* the function raised at source line `line`
Raised(line, checks) ==
    [raised |-> TRUE, ret |-> JNull, line |-> line, checks |-> checks]

NotCalled == [raised |-> FALSE, ret |-> JNull, line |-> 0, checks |-> <<>>]

get_exchange_rates(transport, status, body) ==
    IF transport = "RequestException"
    THEN Returned(ErrorDict(JStr("Network error while calling ExchangeRate API")),
                  82, <<"requests.get">>)
    ELSE IF status # HTTP_OK
    THEN Returned(ErrorDict(JStr("HTTP error " \o ToString(status))),
                  85, <<"requests.get", "status_code">>)
    ELSE IF strip(body) = <<>>
    THEN Returned(ErrorDict(JStr("Empty response from ExchangeRate API")),
                  88, <<"requests.get", "status_code", "text.strip">>)
    ELSE IF ~response_json(body).ok
    THEN Returned(ErrorDict(JStr("Non-JSON response from ExchangeRate API")),
                  93, <<"requests.get", "status_code", "text.strip", "response.json">>)
    ELSE LET data == response_json(body).data
             checks == <<"requests.get", "status_code", "text.strip",
                         "response.json", "data.get">>
         IN  IF data.t # "obj"
             THEN Raised(95, checks)       \* AttributeError: no attribute 'get'
             ELSE IF Get(data, "result", JNull) # JStr("success")
             THEN Returned(ErrorDict(Get(data, "error-type", JStr("Unknown API error"))),
                           96, checks)
             ELSE Returned(data, 98, checks)

-----------------------------------------------------------------------------
(* Currency-code extraction *)

Upper == {"A"}
Lower == {"a"}
Alphabet == {"A", "a", "1", ".", " "}

Texts(n) == UNION {[1..k -> Alphabet] : k \in 0..n}

\* str.split(): the maximal runs of non-whitespace characters, in order
RECURSIVE split_from(_, _, _, _)
split_from(text, i, word, words) ==
    IF i > Len(text)
    THEN IF word = <<>> THEN words ELSE Append(words, word)
    ELSE IF text[i] = " "
    THEN split_from(text, i + 1, <<>>,
                    IF word = <<>> THEN words ELSE Append(words, word))
    ELSE split_from(text, i + 1, Append(word, text[i]), words)

split(text) == split_from(text, 1, <<>>, <<>>)

\* str.isupper(): at least one cased character and no lowercase one
isupper(w) ==
    /\ \E i \in 1..Len(w) : w[i] \in Upper \cup Lower
    /\ \A i \in 1..Len(w) : w[i] \notin Lower

None == <<"None">>

\* next((w for w in info.split() if len(w) == 3 and w.isupper()), None)
ExtractCurrency(text) ==
    LET words == split(text)
        hits == {i \in 1..Len(words) : Len(words[i]) = 3 /\ isupper(words[i])}
    IN  IF hits = {} THEN None
        ELSE words[CHOOSE i \in hits : \A j \in hits : i <= j]

-----------------------------------------------------------------------------
(* Forecast display loop *)

\* entry number k of the 3-hourly forecast series: dt_txt is "<date> HH:00:00"
Entry(k) == [dt_txt |-> [date |-> k \div 8, time |-> <<3 * (k % 8), 0, 0>>]]

\* "12:00:00" in item["dt_txt"]
HasMarker(item) == item.dt_txt.time = <<12, 0, 0>>

\* the forecast lists: consecutive entries of the series, starting at any hour
ForecastLists ==
    {[i \in 1..len |-> Entry(first + i - 1)] : first \in 0..7, len \in 0..MaxEntries}

\* the loop without its `shown < days` test
RECURSIVE forecast_loop_uncapped(_, _, _, _)
forecast_loop_uncapped(list, i, d, written) ==
    IF i > Len(list) THEN written
    ELSE IF HasMarker(list[i])
    THEN forecast_loop_uncapped(list, i + 1, d, Append(written, list[i]))
    ELSE forecast_loop_uncapped(list, i + 1, d, written)

\* for item in list: if marker in item and shown < days: write, shown += 1
RECURSIVE forecast_loop(_, _, _, _)
forecast_loop(list, i, d, written) ==
    IF i > Len(list) THEN written
    ELSE IF HasMarker(list[i]) /\ Len(written) < d
    THEN forecast_loop(list, i + 1, d, Append(written, list[i]))
    ELSE forecast_loop(list, i + 1, d, written)

-----------------------------------------------------------------------------
(* The two button handlers *)

Keys == {"", "k"}

MinDays == 1
MaxDays == 7
DefaultDays == 3

Countries == {"Japan", "japan", ""}

index_map ==
    ("Japan" :> "^N225") @@ ("India" :> "^BSESN") @@ ("United States" :> "^GSPC")
    @@ ("US" :> "^GSPC") @@ ("UK" :> "^FTSE") @@ ("China" :> "000001.SS")
    @@ ("South Korea" :> "^KS11")

NoReply == [raised |-> FALSE, cod |-> 0]
NoResp == [transport |-> "none", status |-> 0, body |-> <<>>]

\* replies of the current-weather endpoint: a payload with its cod, or an exception
CurrentReplies ==
    {[raised |-> FALSE, cod |-> c] : c \in {200, 401, 404}}
    \cup {[raised |-> TRUE, cod |-> 0]}

\* an exception nobody catches ends the run
Unhandled(lg) == [pc |-> "idle", log |-> Append(lg, "unhandled")]

\* lines 210-230: ticker lookup, stock history, map link
IndexSection(lg, c) ==
    IF c \in DOMAIN index_map
    THEN [pc |-> "market_stock",
          log |-> lg \o <<"st.subheader:index", "yf.history:" \o index_map[c]>>]
    ELSE [pc |-> "idle", log |-> Append(lg, "st.markdown:map")]

\* lines 200-208: the handling of the value get_exchange_rates returned
RatesSection(lg, r) ==
    IF Has(r, "error")
    THEN [faulted |-> FALSE, log |-> Append(lg, "st.error:exchange")]
    ELSE IF ~Has(r, "conversion_rates")
    THEN [faulted |-> TRUE, log |-> Append(lg, "st.subheader:rates")]   \* KeyError
    ELSE IF r.m["conversion_rates"].t # "obj"
    THEN [faulted |-> TRUE, log |-> Append(lg, "st.subheader:rates")]   \* AttributeError
    ELSE [faulted |-> FALSE,
          log |-> lg \o <<"st.subheader:rates", "st.write:USD", "st.write:INR",
                          "st.write:GBP", "st.write:EUR">>]

\* the trip check with the exchange key in place of the weather key
TripKeysMissing_exchange == groq_key = "" \/ exchange_key = ""

\* line 122: not groq_key or not weather_key
TripKeysMissing == groq_key = "" \/ weather_key = ""

\* line 176: not groq_key or not exchange_key
MarketKeysMissing == groq_key = "" \/ exchange_key = ""

\* the exchange-rate request issued without the `if currency:` guard
AfterExtraction_unguarded(lg, cur, c) ==
    [pc |-> "market_rates", log |-> Append(lg, "GET:exchange")]

\* lines 197-198 and 210: `if currency:` guards the exchange-rate request
AfterExtraction(lg, cur, c) ==
    IF cur # None
    THEN [pc |-> "market_rates", log |-> Append(lg, "GET:exchange")]
    ELSE IndexSection(lg, c)

\* a new run starts with the outputs and locals of the previous one gone
FreshRun ==
    /\ current' = NoReply
    /\ forecast_data' = <<>>
    /\ shown' = <<>>
    /\ info' = <<>>
    /\ currency' = None
    /\ rates' = NotCalled
    /\ UNCHANGED resp

\* editing a sidebar field reruns the script with no button pressed
SidebarInput ==
    /\ pc = "idle"
    /\ \E g \in Keys, w \in Keys, e \in Keys :
          /\ <<g, w, e>> # <<groq_key, weather_key, exchange_key>>
          /\ groq_key' = g
          /\ weather_key' = w
          /\ exchange_key' = e
    /\ flow' = "none"
    /\ log' = <<>>
    /\ pc' = "idle"
    /\ FreshRun
    /\ UNCHANGED <<days, country>>

\* lines 121-125: the button, the credential check, the first request
ClickPlanMyTrip ==
    /\ pc = "idle"
    /\ \E d \in MinDays..MaxDays : days' = d
    /\ flow' = "trip"
    /\ IF TripKeysMissing
       THEN log' = <<"st.error:keys">> /\ pc' = "idle"
       ELSE log' = <<"GET:weather">> /\ pc' = "get_current_weather"
    /\ FreshRun
    /\ UNCHANGED <<groq_key, weather_key, exchange_key, country>>

\* lines 125-126: get_current_weather returns, get_forecast is called
CurrentWeatherReturns ==
    /\ pc = "get_current_weather"
    /\ \E reply \in CurrentReplies :
          /\ current' = reply
          /\ IF reply.raised
             THEN pc' = "idle" /\ log' = Unhandled(log).log
             ELSE pc' = "get_forecast" /\ log' = Append(log, "GET:forecast")
    /\ UNCHANGED <<groq_key, weather_key, exchange_key, flow, days, country,
                   forecast_data, shown, info, currency, resp, rates>>

\* lines 126-156: get_forecast returns, status check, display loop, LLM request
ForecastReturns ==
    /\ pc = "get_forecast"
    /\ \E raised \in BOOLEAN, list \in ForecastLists :
          IF raised
          THEN /\ list = <<>>
               /\ pc' = "idle"
               /\ log' = Unhandled(log).log
               /\ UNCHANGED <<forecast_data, shown>>
          ELSE /\ forecast_data' = list
               /\ IF current.cod # 200
                  THEN /\ log' = Append(log, "st.error:city")
                       /\ pc' = "idle"
                       /\ shown' = <<>>
                  ELSE /\ shown' = forecast_loop(list, 1, days, <<>>)
                       /\ log' = log \o <<"st.write:current">>
                                    \o [i \in 1..Len(shown') |-> "st.write:forecast"]
                                    \o <<"llm">>
                       /\ pc' = "trip_llm"
    /\ UNCHANGED <<groq_key, weather_key, exchange_key, flow, days, country,
                   current, info, currency, resp, rates>>

\* lines 156-165: the LLM returns the plan; plan and map link are shown
TripLLMReturns ==
    /\ pc = "trip_llm"
    /\ \E raised \in BOOLEAN :
          IF raised
          THEN log' = Unhandled(log).log
          ELSE log' = log \o <<"st.write:plan", "st.markdown:map">>
    /\ pc' = "idle"
    /\ UNCHANGED <<groq_key, weather_key, exchange_key, flow, days, country,
                   current, forecast_data, shown, info, currency, resp, rates>>

\* lines 175-186: the button, the credential check, the LLM request
ClickGetMarketDetails ==
    /\ pc = "idle"
    /\ \E c \in Countries : country' = c
    /\ flow' = "market"
    /\ IF MarketKeysMissing
       THEN log' = <<"st.error:keys">> /\ pc' = "idle"
       ELSE log' = <<"llm">> /\ pc' = "market_llm"
    /\ FreshRun
    /\ UNCHANGED <<groq_key, weather_key, exchange_key, days>>

\* lines 186-198 (and 210-230 when no code is found): the LLM returns the overview
MarketLLMReturns ==
    /\ pc = "market_llm"
    /\ \E raised \in BOOLEAN, text \in Texts(MaxInfoLen) :
          IF raised
          THEN /\ text = <<>>
               /\ pc' = "idle"
               /\ log' = Unhandled(log).log
               /\ UNCHANGED <<info, currency>>
          ELSE /\ info' = text
               /\ currency' = ExtractCurrency(text)
               /\ LET next == AfterExtraction(Append(log, "st.write:info"),
                                               currency', country)
                  IN  pc' = next.pc /\ log' = next.log
    /\ UNCHANGED <<groq_key, weather_key, exchange_key, flow, days, country,
                   current, forecast_data, shown, resp, rates>>

\* lines 198-230: get_exchange_rates runs to its end; its value is handled
MarketRatesReturns ==
    /\ pc = "market_rates"
    /\ \E t \in Transports, s \in Statuses, b \in Bodies :
          /\ rates' = get_exchange_rates(t, s, b)
          /\ IF rates'.raised
             THEN pc' = "idle" /\ log' = Unhandled(log).log
             ELSE LET shownRates == RatesSection(log, rates'.ret)
                      next == IndexSection(shownRates.log, country)
                  IN  IF shownRates.faulted
                      THEN pc' = "idle" /\ log' = Unhandled(shownRates.log).log
                      ELSE pc' = next.pc /\ log' = next.log
    /\ UNCHANGED <<groq_key, weather_key, exchange_key, flow, days, country,
                   current, forecast_data, shown, info, currency, resp>>

\* lines 222-230: the stock history returns; table and map link are shown
StockHistoryReturns ==
    /\ pc = "market_stock"
    /\ \E raised \in BOOLEAN :
          IF raised
          THEN log' = Unhandled(log).log
          ELSE log' = log \o <<"st.dataframe", "st.markdown:map">>
    /\ pc' = "idle"
    /\ UNCHANGED <<groq_key, weather_key, exchange_key, flow, days, country,
                   current, forecast_data, shown, info, currency, resp, rates>>

Init ==
    /\ groq_key \in Keys
    /\ weather_key \in Keys
    /\ exchange_key \in Keys
    /\ pc = "idle"
    /\ flow = "none"
    /\ log = <<>>
    /\ days = DefaultDays
    /\ country = ""
    /\ current = NoReply
    /\ forecast_data = <<>>
    /\ shown = <<>>
    /\ info = <<>>
    /\ currency = None
    /\ resp = NoResp
    /\ rates = NotCalled

Next ==
    \/ SidebarInput
    \/ ClickPlanMyTrip
    \/ CurrentWeatherReturns
    \/ ForecastReturns
    \/ TripLLMReturns
    \/ ClickGetMarketDetails
    \/ MarketLLMReturns
    \/ MarketRatesReturns
    \/ StockHistoryReturns

Spec == Init /\ [][Next]_vars

-----------------------------------------------------------------------------
(* get_exchange_rates on its own: every reply of the endpoint, one call *)

AppIdle ==
    /\ groq_key = "k"
    /\ weather_key = "k"
    /\ exchange_key = "k"
    /\ flow = "none"
    /\ log = <<>>
    /\ days = DefaultDays
    /\ country = ""
    /\ current = NoReply
    /\ forecast_data = <<>>
    /\ shown = <<>>

InitRates ==
    /\ AppIdle
    /\ pc = "rates_call"
    /\ info = <<>>
    /\ currency = <<"A", "A", "A">>
    /\ resp \in [transport : Transports, status : Statuses, body : Bodies]
    /\ rates = NotCalled

CallRates ==
    /\ pc = "rates_call"
    /\ rates' = get_exchange_rates(resp.transport, resp.status, resp.body)
    /\ pc' = "rates_returned"
    /\ UNCHANGED <<groq_key, weather_key, exchange_key, flow, log, days, country,
                   current, forecast_data, shown, info, currency, resp>>

NextRates == CallRates

SpecRates == InitRates /\ [][NextRates]_vars

-----------------------------------------------------------------------------
(* the currency extraction on its own: every text, one extraction *)

InitExtract ==
    /\ AppIdle
    /\ pc = "extract_call"
    /\ info \in Texts(MaxTextLen)
    /\ currency = None
    /\ resp = NoResp
    /\ rates = NotCalled

Extract ==
    /\ pc = "extract_call"
    /\ currency' = ExtractCurrency(info)
    /\ pc' = "extract_returned"
    /\ UNCHANGED <<groq_key, weather_key, exchange_key, flow, log, days, country,
                   current, forecast_data, shown, info, resp, rates>>

NextExtract == Extract

SpecExtract == InitExtract /\ [][NextExtract]_vars

-----------------------------------------------------------------------------
(* Properties of get_exchange_rates, checked under SpecRates *)

NetworkError == ErrorDict(JStr("Network error while calling ExchangeRate API"))
HttpError(status) == ErrorDict(JStr("HTTP error " \o ToString(status)))
EmptyResponse == ErrorDict(JStr("Empty response from ExchangeRate API"))
MalformedJson == ErrorDict(JStr("Non-JSON response from ExchangeRate API"))
ApiError(message) == ErrorDict(message)

\* the body is empty or whitespace only
IsBlank(body) == \A i \in 1..Len(body) : body[i].kind = "ws"

\* the body is the JSON text of v, with optional whitespace around it
IsJsonOf(body, v) ==
    \E l \in 0..Len(body), r \in 0..Len(body) :
        body = Pad(l) \o <<JsonText(v)>> \o Pad(r)

IsJson(body) == \E v \in JsonValues : IsJsonOf(body, v)

RatesReturned == pc = "rates_returned"

\* C1: the result is decided by the first failing check in the order transport,
\* status, blank body, JSON parse, and no later check runs: a transport exception
\* gives NetworkError; else a status other than 200 gives HttpError(status)
\* whatever the body; else a blank body gives EmptyResponse without the JSON
\* parser being called; else a body that is no JSON gives MalformedJson.
C1_FirstFailingCheck ==
    RatesReturned =>
        /\ resp.transport = "RequestException" =>
              /\ ~rates.raised
              /\ rates.ret = NetworkError
              /\ rates.checks = <<"requests.get">>
        /\ resp.transport = "response" /\ resp.status # 200 =>
              /\ ~rates.raised
              /\ rates.ret = HttpError(resp.status)
              /\ rates.checks = <<"requests.get", "status_code">>
        /\ resp.transport = "response" /\ resp.status = 200 /\ IsBlank(resp.body) =>
              /\ ~rates.raised
              /\ rates.ret = EmptyResponse
              /\ rates.checks = <<"requests.get", "status_code", "text.strip">>
        /\ /\ resp.transport = "response"
           /\ resp.status = 200
           /\ ~IsBlank(resp.body)
           /\ ~IsJson(resp.body)
           => /\ ~rates.raised
              /\ rates.ret = MalformedJson
              /\ rates.checks = <<"requests.get", "status_code", "text.strip",
                                  "response.json">>

\* a 404 whose body is a success payload is reported as HttpError(404)
C1_Witness ==
    /\ RatesReturned
    /\ resp.transport = "response"
    /\ resp.status = 404
    /\ resp.body = <<JsonText(JObj(("result" :> JStr("success"))
                                   @@ ("conversion_rates" :> SampleRates)))>>
    /\ rates.ret = HttpError(404)

\* a 200 whose body is whitespace only is reported as EmptyResponse
C1_WitnessBlank ==
    /\ RatesReturned
    /\ resp.transport = "response"
    /\ resp.status = 200
    /\ resp.body = <<WS>>
    /\ rates.ret = EmptyResponse

\* C2: get_exchange_rates never raises: for every transport outcome, status and
\* body it returns a value, which is Success (the payload, returned at the last
\* line) or a Failure carrying one of the five reasons.
C2_NeverRaises ==
    RatesReturned =>
        /\ ~rates.raised
        /\ \/ rates.line = 98 /\ rates.ret \in Payloads
           \/ rates.ret = NetworkError
           \/ \E st \in Statuses : rates.ret = HttpError(st)
           \/ rates.ret = EmptyResponse
           \/ rates.ret = MalformedJson
           \/ rates.line = 96 /\ Has(rates.ret, "error")

\* C3: for a 200 whose body is the JSON object v: when v's result field is not
\* the string "success" (or is absent) the function returns ApiError(message),
\* message being v's error-type field if present and "Unknown API error"
\* otherwise; it returns v itself, as Success, exactly when result is "success".
C3_ApiErrorOrSuccess ==
    RatesReturned /\ resp.transport = "response" /\ resp.status = 200 =>
        \A v \in Payloads :
            IsJsonOf(resp.body, v) =>
                LET success == Has(v, "result") /\ v.m["result"] = JStr("success")
                    message == IF Has(v, "error-type") THEN v.m["error-type"]
                               ELSE JStr("Unknown API error")
                IN  /\ ~rates.raised
                    /\ ~success => rates.ret = ApiError(message) /\ rates.line = 96
                    /\ success => rates.ret = v /\ rates.line = 98
                    /\ (rates.line = 98) <=> success

\* {"result": "error", "error-type": "unsupported-code"} gives
\* ApiError("unsupported-code")
C3_Witness ==
    /\ RatesReturned
    /\ resp.transport = "response"
    /\ resp.status = 200
    /\ resp.body = <<JsonText(JObj(("result" :> JStr("error"))
                                   @@ ("error-type" :> JStr("unsupported-code"))))>>
    /\ rates.ret = ApiError(JStr("unsupported-code"))

-----------------------------------------------------------------------------
(* Properties of the currency extraction, checked under SpecExtract *)

\* the words of exactly three characters, all of them uppercase letters
UpperLetterWords(text) ==
    {i \in 1..Len(split(text)) :
        /\ Len(split(text)[i]) = 3
        /\ \A j \in 1..3 : split(text)[i][j] \in Upper}

\* C4: the extraction returns the first whitespace-delimited token that is
\* exactly 3 characters long and consists entirely of uppercase letters, and
\* returns absence if and only if the text has no such token; a 3-character
\* token with a digit or a punctuation character in it is never selected.
C4_FirstUpperLetterToken ==
    pc = "extract_returned" =>
        LET hits == UpperLetterWords(info)
        IN  /\ (currency = None) <=> (hits = {})
            /\ hits # {} =>
                  currency = split(info)[CHOOSE i \in hits : \A j \in hits : i <= j]
            /\ currency # None =>
                  \A j \in 1..Len(currency) : currency[j] \notin {"1", "."}

-----------------------------------------------------------------------------
(* Properties of the two button handlers, checked under Spec *)

Count(lg, ev) == Cardinality({i \in 1..Len(lg) : lg[i] = ev})

Logged(ev) == \E i \in 1..Len(log) : log[i] = ev

Finished == pc = "idle" /\ flow # "none"

\* C5: in the trip flow the forecast is fetched only after the current-weather
\* status check has passed: once the current-weather reply carries a status
\* other than 200, neither the forecast endpoint nor the LLM is called in that
\* run, and the run ends with the city error shown.
C5_ForecastAfterStatusCheck ==
    flow = "trip" /\ ~current.raised /\ current.cod \notin {0, 200} =>
        /\ ~Logged("GET:forecast")
        /\ ~Logged("llm")
        /\ Finished => Logged("st.error:city")

\* the LLM text of the market flow has been received and the extraction has run
Extracted == flow = "market" /\ Logged("st.write:info")

ExchangeEvents ==
    {"GET:exchange", "st.error:exchange", "st.subheader:rates", "st.write:USD",
     "st.write:INR", "st.write:GBP", "st.write:EUR"}

NoExchangeActivity == \A i \in 1..Len(log) : log[i] \notin ExchangeEvents

Mapped == country \in DOMAIN index_map

\* C6 as stated: whenever the extraction returns absence, the exchange-rate
\* retrieval is skipped entirely (no request, no exchange output, no exchange
\* error) and the run still reaches the ticker lookup and ends with the
\* map-search link shown.
C6_SkipThenMapLink ==
    Extracted /\ currency = None =>
        /\ NoExchangeActivity
        /\ rates = NotCalled
        /\ Finished => Logged("st.markdown:map")

\* C6 as amended: whenever the extraction returns absence, the exchange-rate
\* retrieval is skipped entirely and the run goes straight on to the ticker
\* lookup; it ends with the map-search link shown unless the stock-history
\* fetch of a mapped country raises.
C6_SkipThenIndexSection ==
    Extracted /\ currency = None =>
        /\ NoExchangeActivity
        /\ rates = NotCalled
        /\ pc \in {"idle", "market_stock"}
        /\ Mapped =>
              /\ SubSeq(log, 1, 4) = <<"llm", "st.write:info", "st.subheader:index",
                                      "yf.history:" \o index_map[country]>>
              /\ Finished =>
                    \/ log[Len(log)] = "st.markdown:map"
                    \/ /\ log[Len(log)] = "unhandled"
                       /\ log[Len(log) - 1] = "yf.history:" \o index_map[country]
        /\ ~Mapped => log = <<"llm", "st.write:info", "st.markdown:map">>

\* no code in the text, a mapped country: the run ends with table and map link
C6_Witness ==
    /\ Extracted
    /\ Finished
    /\ info = <<"a", "1", ".">>
    /\ currency = None
    /\ country = "Japan"
    /\ log = <<"llm", "st.write:info", "st.subheader:index", "yf.history:^N225",
               "st.dataframe", "st.markdown:map">>

\* C7: a Trip Planner click with the LLM key or the weather key empty, and a
\* Market click with the LLM key or the exchange key empty, shows only the
\* missing-credential message and calls no service; with the keys of the flow
\* present the flow starts (its first request is issued) whatever the third key.
C7_CredentialGate ==
    /\ flow = "trip" =>
          IF groq_key = "" \/ weather_key = ""
          THEN log = <<"st.error:keys">> /\ pc = "idle"
          ELSE Len(log) > 0 /\ log[1] = "GET:weather" /\ ~Logged("st.error:keys")
    /\ flow = "market" =>
          IF groq_key = "" \/ exchange_key = ""
          THEN log = <<"st.error:keys">> /\ pc = "idle" /\ rates = NotCalled
          ELSE Len(log) > 0 /\ log[1] = "llm" /\ ~Logged("st.error:keys")

\* a trip click without the weather key shows only the credential message
C7_Witness ==
    /\ flow = "trip"
    /\ groq_key = "k"
    /\ weather_key = ""
    /\ exchange_key = "k"
    /\ log = <<"st.error:keys">>

\* a trip run without the exchange key that went through to its last line
C7_WitnessNotBlocked ==
    /\ flow = "trip"
    /\ exchange_key = ""
    /\ Finished
    /\ log[Len(log)] = "st.markdown:map"

StockFetches == {i \in 1..Len(log) : \E c \in DOMAIN index_map :
                    log[i] = "yf.history:" \o index_map[c]}

\* C8: once the LLM text is in, whatever the extraction and the exchange-rate
\* retrieval gave (no code found, a Failure or a Success returned): for a country of the table exactly one stock-history fetch is
\* issued, for its mapped ticker; for any other country no fetch is issued, no
\* fault is shown and the run ends with the map-search link.
C8_StockSectionIndependent ==
    Extracted /\ Finished /\ ~rates.raised =>
        IF Mapped
        THEN /\ Cardinality(StockFetches) = 1
             /\ Logged("yf.history:" \o index_map[country])
             /\ country = "Japan" => Logged("yf.history:^N225")
        ELSE /\ StockFetches = {}
             /\ ~Logged("unhandled")
             /\ log[Len(log)] = "st.markdown:map"

ConversionsShown ==
    \A ev \in {"st.write:USD", "st.write:INR", "st.write:GBP", "st.write:EUR"} :
        Count(log, ev) = 1

\* C9: for every value get_exchange_rates returns to the market flow, the flow
\* shows the four conversions exactly when the value was returned as Success
\* (last line of the function) and shows the exchange error exactly when it was
\* returned as a Failure; the handling of the value raises nothing.
C9_FlowAgreesWithClassification ==
    flow = "market" /\ rates # NotCalled /\ ~rates.raised =>
        /\ (rates.line = 98) <=> ConversionsShown
        /\ (rates.line \in {82, 85, 88, 93, 96}) <=> Logged("st.error:exchange")
        /\ \A i \in 1..Len(log) - 1 :
              log[i] = "st.subheader:rates" => log[i + 1] # "unhandled"

\* the positions of the forecast entries that carry the 12:00:00 marker
Noon(list) == {i \in 1..Len(list) : list[i].dt_txt.time = <<12, 0, 0>>}

Min(a, b) == IF a < b THEN a ELSE b

\* C10: the forecast lines shown are exactly the first min(days, k) entries of
\* the forecast list that carry the 12:00:00 marker (k of them in the list), in
\* list order: never more than `days`, never an entry without the marker, and
\* at most one per calendar day.
C10_ForecastLines ==
    flow = "trip" /\ Logged("st.write:current") =>
        LET noon == Noon(forecast_data)
            n == Min(days, Cardinality(noon))
        IN  /\ Len(shown) = n
            /\ Count(log, "st.write:forecast") = n
            /\ \A j \in 1..n :
                  \E i \in noon :
                      /\ Cardinality({x \in noon : x <= i}) = j
                      /\ shown[j] = forecast_data[i]
            /\ Len(shown) <= days
            /\ \A j \in 1..Len(shown) : shown[j].dt_txt.time = <<12, 0, 0>>
            /\ \A a, b \in 1..Len(shown) :
                  a # b => shown[a].dt_txt.date # shown[b].dt_txt.date

\* a one-day trip with three noon entries in the forecast: one line is shown
C10_Witness ==
    /\ flow = "trip"
    /\ Logged("st.write:current")
    /\ days = 1
    /\ Cardinality(Noon(forecast_data)) = 3
    /\ shown = <<forecast_data[CHOOSE i \in Noon(forecast_data) :
                                 \A j \in Noon(forecast_data) : i <= j]>>

====
